---- MODULE Spec2Model ----
(***************************************************************************)
(* Model of subreddit_idea_filter.py: the batch pipeline                   *)
(*   validate_env_variables -> fetch_new_posts (per forum)                 *)
(*   -> filter_posts_with_gemini (per post) -> build_html_report           *)
(*   -> send_email.                                                        *)
(* External services (forum API, anonymous listing, model, SMTP server)    *)
(* are inputs: each call draws its outcome from a bounded set.             *)
(***************************************************************************)
EXTENDS Integers, Sequences, FiniteSets, TLC

VARIABLES
    env,            \* process environment: variable name -> value (None when unset)
    pc,             \* position of the run
    validated,      \* result of validate_env_variables: "pending" | "passed" | "failed"
    recipient,      \* recipient handed to send_email (main: os.getenv("RECIPIENT_EMAIL"))
    callArgs,       \* arguments of a direct fetch_new_posts call: [subreddit, limit]
    fi,             \* index of the forum main fetches next
    all_posts,      \* main: posts collected so far; direct call: the returned list
    lastFetch,      \* what the two paths of the latest fetch_new_posts call did
    fetchRequests,  \* number of fetch paths attempted (praw session or requests.get)
    idx,            \* number of posts filter_posts_with_gemini has gone through
    filtered_posts, \* accepted pairs; pos records the input position of the post
    lastOutcome,    \* what the model call for post idx produced
    modelCalls,     \* number of client.chat.completions.create calls
    report,         \* the document build_html_report returned, NoReport before
    renderCalls,    \* number of build_html_report calls
    sendCalls,      \* number of send_email calls
    smtpOpened,     \* number of smtplib.SMTP(...) calls
    sendResult,     \* "not_called" | "True" | "False" | "raised"
    raisedIn,       \* function an exception escaped from, "nowhere" if none
    reply           \* direct filter call: the outcome its model call is given

vars == <<env, pc, validated, recipient, callArgs, fi, all_posts, lastFetch,
          fetchRequests, idx, filtered_posts, lastOutcome, modelCalls, report,
          renderCalls, sendCalls, smtpOpened, sendResult, raisedIn, reply>>

(***************************************************************************)
(* Bounds of the model.                                                    *)
(***************************************************************************)
\* how many of main's forums a modelled run goes through
NumForums == 2
\* the limit main passes to fetch_new_posts in a modelled run
MainLimit == 1
\* the largest limit of a direct fetch_new_posts call
MaxLimit == 2
\* the longest model response text
MaxLen == 5

(***************************************************************************)
(* Environment.                                                            *)
(***************************************************************************)
None == "<None>"

\* Python truthiness of an os.getenv result: None and "" are falsy
Truthy(v) == v # None /\ v # ""

\* os.getenv(name, default)
getenv(e, name, default) == IF e[name] = None THEN default ELSE e[name]

required_vars == {"OPENROUTER_KEY"}

optional_vars == {"RECIPIENT_EMAIL", "SMTP_SERVER", "SMTP_PORT", "SMTP_USERNAME",
                  "SMTP_PASSWORD", "SENDER_EMAIL", "REDDIT_CLIENT_ID",
                  "REDDIT_CLIENT_SECRET"}

EnvNames == required_vars \cup optional_vars

missing_required(e) == {v \in required_vars : ~Truthy(e[v])}

missing_optional(e) == {v \in optional_vars : ~Truthy(e[v])}

\* a validation that forgets the "return False"
validate_env_variables_nogate(e) == TRUE

\* validate_env_variables: False exactly when a required variable is missing;
\* missing optional variables are only printed
validate_env_variables(e) == missing_required(e) = {}

\* strings int() accepts, among the port values of the model
NumericStrings == {"587", "465"}

\* int(s) raises ValueError
int_raises(s) == s \notin NumericStrings

(***************************************************************************)
(* Posts.  A post is the submission of rank id in the listing of its       *)
(* forum; title and permalink are functions of (subreddit, id).            *)
(***************************************************************************)
subreddits == <<"RealEstateTechnology", "PropTech", "HealthTech", "EdTech">>

Post(sub, i) == [subreddit |-> sub, id |-> i]

\* Post.get_full_url
get_full_url(p) == <<"https://www.reddit.com", p.subreddit, p.id>>

\* the posts mapped from the first n items of a listing, in listing order
Mapped(sub, n) == [i \in 1..n |-> Post(sub, i)]

(***************************************************************************)
(* fetch_new_posts.  The authenticated listing maps a.n submissions and    *)
(* then ends or fails; the anonymous request fails, or answers a body from *)
(* which b.n items are mapped before the listing ends or a key is missing. *)
(***************************************************************************)
Pred(n) == IF n > 0 THEN n - 1 ELSE 0

AuthOutcomes(limit) ==
    {[n |-> n, fail |-> FALSE] : n \in 0..limit}
    \cup {[n |-> n, fail |-> TRUE] : n \in 0..Pred(limit)}

\* "request_error": requests.exceptions.RequestException (connection error,
\*    timeout, raise_for_status on a non-2xx status, and a non-JSON body where
\*    requests raises its own JSONDecodeError);
\* "value_error": a non-JSON body where response.json() raises a plain ValueError;
\* "key_error": a JSON body without an expected key (KeyError/TypeError)
AnonOutcomes(limit) ==
    {[kind |-> "ok", n |-> n] : n \in 0..limit}
    \cup {[kind |-> k, n |-> 0] : k \in {"request_error", "value_error"}}
    \cup {[kind |-> "key_error", n |-> n] : n \in 0..Pred(limit)}

NoFetch == [auth |-> "none", anon |-> "none", nAuth |-> 0, nAnon |-> 0]

\* fetch_new_posts(subreddit, limit) under environment e, the authenticated
\* path doing a and the anonymous path doing b.  posts is one list for both
\* paths: what the authenticated loop appended before it failed stays in it.
\* Only RequestException is caught on the anonymous path.
fetch_new_posts(sub, limit, e, a, b) ==
    LET useAuth == Truthy(e["REDDIT_CLIENT_ID"]) /\ Truthy(e["REDDIT_CLIENT_SECRET"])
        partial == IF useAuth THEN Mapped(sub, a.n) ELSE <<>>
        failed  == IF useAuth THEN "failed" ELSE "skipped"
        nA      == IF useAuth THEN a.n ELSE 0
        reqs    == IF useAuth THEN 2 ELSE 1
    IN  IF useAuth /\ ~a.fail
        THEN [raised |-> FALSE, posts |-> partial, requests |-> 1,
              paths |-> [auth |-> "ok", anon |-> "skipped", nAuth |-> a.n, nAnon |-> 0]]
        ELSE IF b.kind = "ok"
        THEN [raised |-> FALSE, posts |-> partial \o Mapped(sub, b.n), requests |-> reqs,
              paths |-> [auth |-> failed, anon |-> "ok", nAuth |-> nA, nAnon |-> b.n]]
        ELSE IF b.kind = "request_error"
        THEN [raised |-> FALSE, posts |-> partial, requests |-> reqs,
              paths |-> [auth |-> failed, anon |-> "failed", nAuth |-> nA, nAnon |-> 0]]
        ELSE [raised |-> TRUE, posts |-> <<>>, requests |-> reqs,
              paths |-> [auth |-> failed, anon |-> "failed", nAuth |-> nA, nAnon |-> b.n]]

(***************************************************************************)
(* Text.  A text is a sequence of characters of Alphabet.                  *)
(***************************************************************************)
Alphabet == {"Y", "E", "S", "y", "N", "O", " ", "\n"}

Whitespace == {" ", "\n"}

Texts(n) == UNION {[1..k -> Alphabet] : k \in 0..n}

\* str.upper, character by character
UpperChar(c) == CASE c = "y" -> "Y" [] c = "e" -> "E" [] c = "s" -> "S" [] OTHER -> c

Upper(s) == [i \in 1..Len(s) |-> UpperChar(s[i])]

RECURSIVE LStrip(_)
LStrip(s) == IF s # <<>> /\ Head(s) \in Whitespace THEN LStrip(Tail(s)) ELSE s

RECURSIVE RStrip(_)
RStrip(s) ==
    IF s # <<>> /\ s[Len(s)] \in Whitespace THEN RStrip(SubSeq(s, 1, Len(s) - 1)) ELSE s

\* str.strip()
Strip(s) == RStrip(LStrip(s))

\* str.split('\n', 1)
Split1(s) ==
    IF \E i \in 1..Len(s) : s[i] = "\n"
    THEN LET i == CHOOSE k \in 1..Len(s) : s[k] = "\n" /\ \A j \in 1..(k - 1) : s[j] # "\n"
         IN  <<SubSeq(s, 1, i - 1), SubSeq(s, i + 1, Len(s))>>
    ELSE <<s>>

YES == <<"Y", "E", "S">>

\* a parse that splits the response without trimming it first
ParseResponse_untrimmed(text) ==
    LET lines    == Split1(text)
        decision == Upper(Strip(lines[1]))
    IN  [accepted |-> decision = YES /\ Len(lines) > 1,
         reason   |-> IF Len(lines) > 1 THEN Strip(lines[2]) ELSE <<>>]

\* lines 242-249: the decision and the reason read from the response text
ParseResponse(text) ==
    LET response == Strip(text)
        lines    == Split1(response)
        decision == Upper(Strip(lines[1]))
    IN  [accepted |-> decision = YES /\ Len(lines) > 1,
         reason   |-> IF Len(lines) > 1 THEN Strip(lines[2]) ELSE <<>>]

(***************************************************************************)
(* filter_posts_with_gemini: one iteration of the loop over posts.         *)
(* A model outcome is a response text, a completion without content        *)
(* (content None: .strip() raises AttributeError) or an API error; the     *)
(* last two are caught by "except Exception".                              *)
(***************************************************************************)
TextOutcome(t) == [kind |-> "text", text |-> t]

NoOutcome == [kind |-> "none", text |-> <<>>]

FailureOutcomes == {[kind |-> k, text |-> <<>>] : k \in {"no_content", "api_error"}}

\* the responses of a modelled run: "YES\nO", "yES \n O", "NO", "YES", "YES\n"
MainTexts == {<<"Y", "E", "S", "\n", "O">>, <<"y", "E", "S", " ", "\n", " ", "O">>,
              <<"N", "O">>, YES, <<"Y", "E", "S", "\n">>}

MainOutcomes == {TextOutcome(t) : t \in MainTexts} \cup FailureOutcomes

Pair(post, reason, pos) == [post |-> post, reason |-> reason, pos |-> pos]

\* an iteration that lets the exception of a failed call end the loop
filter_iteration_abort(filtered, pos, post, out) ==
    IF out.kind # "text"
    THEN [raised |-> TRUE, filtered |-> filtered]
    ELSE LET p == ParseResponse(out.text)
         IN  [raised |-> FALSE,
              filtered |-> IF p.accepted THEN Append(filtered, Pair(post, p.reason, pos))
                           ELSE filtered]

\* an iteration that keeps the post of a failed call
filter_iteration_keep(filtered, pos, post, out) ==
    IF out.kind # "text"
    THEN [raised |-> FALSE, filtered |-> Append(filtered, Pair(post, <<>>, pos))]
    ELSE LET p == ParseResponse(out.text)
         IN  [raised |-> FALSE,
              filtered |-> IF p.accepted THEN Append(filtered, Pair(post, p.reason, pos))
                           ELSE filtered]

\* an iteration that puts an accepted post in front of the list
filter_iteration_front(filtered, pos, post, out) ==
    IF out.kind # "text"
    THEN [raised |-> FALSE, filtered |-> filtered]
    ELSE LET p == ParseResponse(out.text)
         IN  [raised |-> FALSE,
              filtered |-> IF p.accepted THEN <<Pair(post, p.reason, pos)>> \o filtered
                           ELSE filtered]

\* lines 228-256 for the post at input position pos: the new list, and
\* whether an exception leaves the loop (never: every Exception is caught)
filter_iteration(filtered, pos, post, out) ==
    IF out.kind # "text"
    THEN [raised |-> FALSE, filtered |-> filtered]
    ELSE LET p == ParseResponse(out.text)
         IN  [raised |-> FALSE,
              filtered |-> IF p.accepted THEN Append(filtered, Pair(post, p.reason, pos))
                           ELSE filtered]

(***************************************************************************)
(* build_html_report: the count line and one post block per pair.          *)
(***************************************************************************)
NoReport == [count |-> -1, blocks |-> <<>>]

Block(pair) == [subreddit |-> pair.post.subreddit, href |-> get_full_url(pair.post),
                title |-> pair.post.id, reason |-> pair.reason]

build_html_report(filtered) ==
    [count |-> Len(filtered), blocks |-> [k \in 1..Len(filtered) |-> Block(filtered[k])]]

(***************************************************************************)
(* send_email.  The SMTP session either goes through or fails at one of    *)
(* its calls; every such failure is caught.                                *)
(***************************************************************************)
SmtpOutcomes == {"ok", "connect_fail", "starttls_fail", "login_fail", "send_fail",
                 "quit_fail"}

\* a completeness check that leaves the recipient out
config_complete_norecipient(smtp_username, smtp_password, sender_email, to) ==
    Truthy(smtp_username) /\ Truthy(smtp_password) /\ Truthy(sender_email)

\* line 362: all([smtp_username, smtp_password, sender_email, recipient])
config_complete(smtp_username, smtp_password, sender_email, to) ==
    Truthy(smtp_username) /\ Truthy(smtp_password) /\ Truthy(sender_email) /\ Truthy(to)

\* send_email(recipient, subject, html_content) under environment e with the
\* SMTP session doing out.  int() of the port is evaluated before anything
\* else that can fail and outside the try block.
send_email(to, e, out) ==
    LET smtp_server   == getenv(e, "SMTP_SERVER", "smtp.gmail.com")
        port_text     == getenv(e, "SMTP_PORT", "587")
        smtp_username == e["SMTP_USERNAME"]
        smtp_password == e["SMTP_PASSWORD"]
        sender_email  == getenv(e, "SENDER_EMAIL", smtp_username)
    IN  IF int_raises(port_text)
        THEN [raised |-> TRUE, result |-> "raised", smtp |-> 0]
        ELSE IF ~config_complete(smtp_username, smtp_password, sender_email, to)
        THEN [raised |-> FALSE, result |-> "False", smtp |-> 0]
        ELSE [raised |-> FALSE, result |-> IF out = "ok" THEN "True" ELSE "False",
              smtp |-> 1]

(***************************************************************************)
(* Initial states.                                                         *)
(***************************************************************************)
Unset == [v \in EnvNames |-> None]

\* e with the variables of d set to d's values
With(e, d) == [v \in EnvNames |-> IF v \in DOMAIN d THEN d[v] ELSE e[v]]

KeyValues == {None, "", "sk-or-v1-key"}

RedditEnvs == [{"REDDIT_CLIENT_ID", "REDDIT_CLIENT_SECRET"} -> {None, "", "cred"}]

\* every mail configuration
MailEnvs ==
    {("SMTP_SERVER" :> h) @@ ("SMTP_PORT" :> p) @@ ("SMTP_USERNAME" :> u)
        @@ ("SMTP_PASSWORD" :> w) @@ ("SENDER_EMAIL" :> s) :
        h \in {None, "smtp.example.com"}, p \in {None, "587", "465", "", "smtp"},
        u \in {None, "", "user"}, w \in {None, "", "secret"},
        s \in {None, "", "from@example.com"}}

\* the mail configurations of a modelled run of main: complete by the
\* defaults, without a username, and with a port that is not a number
MainMailEnvs ==
    {m \in MailEnvs : /\ m["SMTP_SERVER"] = None /\ m["SENDER_EMAIL"] = None
                      /\ m["SMTP_PASSWORD"] = "secret"
                      /\ <<m["SMTP_USERNAME"], m["SMTP_PORT"]>> \in
                            {<<"user", None>>, <<None, None>>, <<"user", "smtp">>}}

RecipientValues == {None, "", "to@example.com"}

NoCall == [subreddit |-> "", limit |-> 0]

Idle ==
    /\ validated = "pending"
    /\ fi = 1
    /\ all_posts = <<>>
    /\ lastFetch = NoFetch
    /\ fetchRequests = 0
    /\ idx = 0
    /\ filtered_posts = <<>>
    /\ lastOutcome = NoOutcome
    /\ modelCalls = 0
    /\ report = NoReport
    /\ renderCalls = 0
    /\ sendCalls = 0
    /\ smtpOpened = 0
    /\ sendResult = "not_called"
    /\ raisedIn = "nowhere"
    /\ reply = NoOutcome

\* a process about to run main()
Init ==
    /\ \E k \in KeyValues, r \in RedditEnvs, m \in MainMailEnvs,
          to \in {None, "to@example.com"} :
          env = With(With(With(Unset, m), r),
                     ("OPENROUTER_KEY" :> k) @@ ("RECIPIENT_EMAIL" :> to))
    /\ pc = "main"
    /\ recipient = None
    /\ callArgs = NoCall
    /\ Idle

(***************************************************************************)
(* main.                                                                   *)
(***************************************************************************)
\* lines 390-406: the configuration gate, then the recipient is read
Validate ==
    /\ pc = "main"
    /\ IF validate_env_variables(env)
       THEN /\ validated' = "passed"
            /\ recipient' = env["RECIPIENT_EMAIL"]
            /\ pc' = "fetch"
       ELSE /\ validated' = "failed"
            /\ pc' = "done"
            /\ UNCHANGED recipient
    /\ UNCHANGED <<reply, env, callArgs, fi, all_posts, lastFetch, fetchRequests, idx,
                   filtered_posts, lastOutcome, modelCalls, report, renderCalls,
                   sendCalls, smtpOpened, sendResult, raisedIn>>

\* the list main extends with the posts of one forum
Extend(posts, new) == posts \o new

\* lines 410-414: one iteration of the loop over the forums
FetchForum ==
    /\ pc = "fetch"
    /\ fi <= NumForums
    /\ \E a \in AuthOutcomes(MainLimit), b \in AnonOutcomes(MainLimit) :
          LET r == fetch_new_posts(subreddits[fi], MainLimit, env, a, b)
          IN  /\ lastFetch' = r.paths
              /\ fetchRequests' = fetchRequests + r.requests
              /\ IF r.raised
                 THEN /\ pc' = "raised"
                      /\ raisedIn' = "fetch_new_posts"
                      /\ UNCHANGED <<all_posts, fi>>
                 ELSE /\ all_posts' = Extend(all_posts, r.posts)
                      /\ fi' = fi + 1
                      /\ UNCHANGED <<pc, raisedIn>>
    /\ UNCHANGED <<reply, env, validated, recipient, callArgs, idx, filtered_posts,
                   lastOutcome, modelCalls, report, renderCalls, sendCalls,
                   smtpOpened, sendResult>>

\* lines 416-424 and 191-203: main returns when nothing was collected;
\* otherwise filter_posts_with_gemini starts, and returns the empty list at
\* once when it finds no key
CollectDone ==
    /\ pc = "fetch"
    /\ fi > NumForums
    /\ pc' = IF all_posts = <<>> THEN "done"
             ELSE IF ~Truthy(env["OPENROUTER_KEY"]) THEN "filtered"
             ELSE "filter"
    /\ lastFetch' = NoFetch
    /\ UNCHANGED <<reply, env, validated, recipient, callArgs, fi, all_posts, fetchRequests,
                   idx, filtered_posts, lastOutcome, modelCalls, report, renderCalls,
                   sendCalls, smtpOpened, sendResult, raisedIn>>

\* lines 205-256: the iteration for the post at position idx + 1, the model
\* call producing out
FilterStep(out) ==
    /\ pc = "filter"
    /\ idx < Len(all_posts)
    /\ LET r == filter_iteration(filtered_posts, idx + 1, all_posts[idx + 1], out)
       IN  /\ filtered_posts' = r.filtered
           /\ IF r.raised
              THEN /\ pc' = "raised"
                   /\ raisedIn' = "filter_posts_with_gemini"
              ELSE /\ pc' = IF idx + 1 = Len(all_posts) THEN "filtered" ELSE "filter"
                   /\ UNCHANGED raisedIn
    /\ idx' = idx + 1
    /\ modelCalls' = modelCalls + 1
    /\ lastOutcome' = out
    /\ UNCHANGED <<env, validated, recipient, callArgs, fi, all_posts, lastFetch,
                   fetchRequests, report, renderCalls, sendCalls, smtpOpened,
                   sendResult>>

FilterPost == (\E out \in MainOutcomes : FilterStep(out)) /\ UNCHANGED reply

\* whether main goes on to send_email once a report is built
wants_send_always(to) == TRUE

\* line 433: if recipient_email
wants_send(to) == Truthy(to)

\* lines 426-443: the report is built when a post was accepted, and
\* send_email is called next when a recipient is configured
Report ==
    /\ pc = "filtered"
    /\ IF filtered_posts # <<>>
       THEN /\ report' = build_html_report(filtered_posts)
            /\ renderCalls' = renderCalls + 1
            /\ pc' = IF wants_send(recipient) THEN "send" ELSE "done"
       ELSE /\ pc' = "done"
            /\ UNCHANGED <<report, renderCalls>>
    /\ lastOutcome' = NoOutcome
    /\ UNCHANGED <<reply, env, validated, recipient, callArgs, fi, all_posts, lastFetch,
                   fetchRequests, idx, filtered_posts, modelCalls, sendCalls,
                   smtpOpened, sendResult, raisedIn>>

\* line 435 and lines 354-384: the call of send_email
SendEmail ==
    /\ pc = "send"
    /\ \E out \in SmtpOutcomes :
          LET r == send_email(recipient, env, out)
          IN  /\ sendResult' = r.result
              /\ smtpOpened' = smtpOpened + r.smtp
              /\ pc' = IF r.raised THEN "raised" ELSE "done"
              /\ raisedIn' = IF r.raised THEN "send_email" ELSE raisedIn
    /\ sendCalls' = sendCalls + 1
    /\ UNCHANGED <<reply, env, validated, recipient, callArgs, fi, all_posts, lastFetch,
                   fetchRequests, idx, filtered_posts, lastOutcome, modelCalls,
                   report, renderCalls>>

Next == Validate \/ FetchForum \/ CollectDone \/ FilterPost \/ Report \/ SendEmail

Spec == Init /\ [][Next]_vars

(***************************************************************************)
(* fetch_new_posts called on its own, for any forum and limit.             *)
(***************************************************************************)
InitFetch ==
    /\ \E r \in RedditEnvs : env = With(Unset, r)
    /\ \E f \in 1..Len(subreddits), l \in 0..MaxLimit :
          callArgs = [subreddit |-> subreddits[f], limit |-> l]
    /\ pc = "call_fetch"
    /\ recipient = None
    /\ Idle

FetchCall ==
    /\ pc = "call_fetch"
    /\ \E a \in AuthOutcomes(callArgs.limit), b \in AnonOutcomes(callArgs.limit) :
          LET r == fetch_new_posts(callArgs.subreddit, callArgs.limit, env, a, b)
          IN  /\ lastFetch' = r.paths
              /\ fetchRequests' = fetchRequests + r.requests
              /\ all_posts' = r.posts
              /\ pc' = IF r.raised THEN "raised" ELSE "returned"
              /\ raisedIn' = IF r.raised THEN "fetch_new_posts" ELSE raisedIn
    /\ UNCHANGED <<reply, env, validated, recipient, callArgs, fi, idx, filtered_posts,
                   lastOutcome, modelCalls, report, renderCalls, sendCalls,
                   smtpOpened, sendResult>>

NextFetch == FetchCall

SpecFetch == InitFetch /\ [][NextFetch]_vars

(***************************************************************************)
(* send_email called on its own, for any recipient and mail configuration. *)
(***************************************************************************)
InitSend ==
    /\ \E m \in MailEnvs : env = With(Unset, m)
    /\ recipient \in RecipientValues
    /\ pc = "send"
    /\ callArgs = NoCall
    /\ Idle

NextSend == SendEmail

SpecSend == InitSend /\ [][NextSend]_vars

(***************************************************************************)
(* filter_posts_with_gemini called on one post, for any response text.     *)
(***************************************************************************)
InitParse ==
    /\ env = With(Unset, "OPENROUTER_KEY" :> "sk-or-v1-key")
    /\ reply \in {TextOutcome(t) : t \in Texts(MaxLen)}
    /\ pc = "filter"
    /\ recipient = None
    /\ callArgs = NoCall
    /\ validated = "pending"
    /\ fi = 1
    /\ all_posts = <<Post(subreddits[1], 1)>>
    /\ lastFetch = NoFetch
    /\ fetchRequests = 0
    /\ idx = 0
    /\ filtered_posts = <<>>
    /\ lastOutcome = NoOutcome
    /\ modelCalls = 0
    /\ report = NoReport
    /\ renderCalls = 0
    /\ sendCalls = 0
    /\ smtpOpened = 0
    /\ sendResult = "not_called"
    /\ raisedIn = "nowhere"

FilterReply == reply # NoOutcome /\ FilterStep(reply) /\ reply' = NoOutcome

NextParse == FilterReply

SpecParse == InitParse /\ [][NextParse]_vars

(***************************************************************************)
(* Properties.                                                             *)
(***************************************************************************)
\* position of forum name sub in main's list
ForumIndex(sub) == CHOOSE f \in 1..Len(subreddits) : subreddits[f] = sub

\* the text reads: optional whitespace, YES in any case, optional blanks, a
\* line break at j, and something other than whitespace after it
YesAt(t, i, j) ==
    /\ \A k \in 1..i : t[k] \in Whitespace
    /\ i + 3 < j
    /\ UpperChar(t[i + 1]) = "Y" /\ UpperChar(t[i + 2]) = "E" /\ UpperChar(t[i + 3]) = "S"
    /\ \A k \in (i + 4)..(j - 1) : t[k] = " "
    /\ t[j] = "\n"
    /\ \E k \in (j + 1)..Len(t) : t[k] \notin Whitespace

YesWithReason(t) == \E i \in 0..Len(t), j \in 1..Len(t) : YesAt(t, i, j)

\* what follows the line break at j, from its first to its last character
\* that is not whitespace
ReasonAfter(t, j) ==
    LET solid == {k \in (j + 1)..Len(t) : t[k] \notin Whitespace}
        first == CHOOSE k \in solid : \A m \in solid : k <= m
        last  == CHOOSE k \in solid : \A m \in solid : m <= k
    IN  SubSeq(t, first, last)

ReasonOf(t) ==
    LET ij == CHOOSE ij \in (0..Len(t)) \X (1..Len(t)) : YesAt(t, ij[1], ij[2])
    IN  ReasonAfter(t, ij[2])

\* the outcome of a model call is a well-formed acceptance
OwnAccept(out) == out.kind = "text" /\ YesWithReason(out.text)

Positions == {filtered_posts[k].pos : k \in 1..Len(filtered_posts)}

----------------------------------------------------------------------------
\* C1 (as claimed): fetch_new_posts never raises to its caller, and when
\* both of its paths fail the list it returns is empty.
C1_FetchNeverRaises ==
    /\ raisedIn # "fetch_new_posts"
    /\ (pc = "returned" /\ lastFetch.auth # "ok" /\ lastFetch.anon = "failed")
          => all_posts = <<>>

----------------------------------------------------------------------------
\* C2 (as claimed): send_email called with any one of mail host, mail port,
\* username, password or recipient unset returns False and opens no SMTP
\* connection.  (A call that int() of the port makes raise is not held
\* against the claim here: it returns nothing, and opens no connection.)
C2_AnyUnsetReturnsFalse ==
    (/\ sendCalls = 1
     /\ \/ env["SMTP_SERVER"] = None
        \/ env["SMTP_PORT"] = None
        \/ ~Truthy(env["SMTP_USERNAME"])
        \/ ~Truthy(env["SMTP_PASSWORD"])
        \/ ~Truthy(recipient))
    => (sendResult \in {"False", "raised"} /\ smtpOpened = 0)

\* the sender send_email resolves: SENDER_EMAIL, by default the username
SenderResolved == Truthy(getenv(env, "SENDER_EMAIL", env["SMTP_USERNAME"]))

PortResolves == env["SMTP_PORT"] = None \/ env["SMTP_PORT"] \in NumericStrings

\* C2 (amended): send_email called with username, password or recipient
\* unset (or empty) opens no SMTP connection, and returns False unless
\* SMTP_PORT is set to a text that is not an integer, when int() raises; an
\* unset host or port is replaced by its default, so that with username,
\* password, sender and recipient present and the port unset or numeric
\* exactly one SMTP connection is opened.
C2_MissingCredentialNoConnection ==
    sendCalls = 1 =>
      /\ (~Truthy(env["SMTP_USERNAME"]) \/ ~Truthy(env["SMTP_PASSWORD"])
            \/ ~Truthy(recipient))
           => /\ smtpOpened = 0
              /\ sendResult = IF PortResolves THEN "False" ELSE "raised"
      /\ (/\ Truthy(env["SMTP_USERNAME"]) /\ Truthy(env["SMTP_PASSWORD"])
          /\ Truthy(recipient) /\ SenderResolved /\ PortResolves)
           => smtpOpened = 1 /\ sendResult \in {"True", "False"}

\* C2 witness: a call without a password has returned False, the host and
\* the port being set.
C2_Witness ==
    /\ sendCalls = 1 /\ sendResult = "False" /\ smtpOpened = 0
    /\ env["SMTP_PASSWORD"] = None /\ Truthy(env["SMTP_USERNAME"]) /\ Truthy(recipient)
    /\ env["SMTP_SERVER"] # None /\ env["SMTP_PORT"] = "587"

----------------------------------------------------------------------------
----------------------------------------------------------------------------
\* every accepted pair holds the post at its own, already visited, input position
PairsFromInput ==
    \A k \in 1..Len(filtered_posts) :
        /\ filtered_posts[k].pos \in 1..idx
        /\ filtered_posts[k].post = all_posts[filtered_posts[k].pos]

\* no input position is held by two pairs
PositionsOnce ==
    \A k, m \in 1..Len(filtered_posts) :
        filtered_posts[k].pos = filtered_posts[m].pos => k = m

\* C4: each pair returned by filter_posts_with_gemini holds a post of the
\* input, the post at each input position is in at most one pair, and a post
\* whose response was malformed or whose call failed is in no pair: not when
\* its iteration ends, and no later step adds a pair for an earlier position.
C4_AcceptedSubsetOfInput ==
    /\ [](PairsFromInput /\ PositionsOnce)
    /\ []((idx >= 1 /\ ~OwnAccept(lastOutcome) /\ lastOutcome # NoOutcome)
             => idx \notin Positions)
    /\ [][\A k \in 1..Len(filtered_posts') :
             \/ filtered_posts'[k].pos = idx'
             \/ \E m \in 1..Len(filtered_posts) : filtered_posts[m] = filtered_posts'[k]]_vars

\* C4 witness: the first post was accepted, and the call for the second
\* failed and left it out.
C4_Witness ==
    /\ idx = 2 /\ lastOutcome.kind = "api_error"
    /\ Positions = {1}
    /\ filtered_posts[1].post = all_posts[1]

----------------------------------------------------------------------------
\* the function has returned to main (which may have gone on or ended)
FilterReturned == pc \in {"filtered", "send"} \/ (pc = "done" /\ all_posts # <<>>)

\* C5: a failed call or malformed response rejects that post only: no
\* exception leaves the loop, the model is called once per post gone through
\* and the loop goes through every post, and an iteration changes the
\* accepted pairs only by appending its own post when its own response is a
\* well-formed acceptance.
C5_FailureRejectsOnlyThatPost ==
    /\ [](raisedIn # "filter_posts_with_gemini" /\ modelCalls = idx)
    /\ [](FilterReturned => (idx = Len(all_posts) /\ modelCalls = Len(all_posts)))
    /\ [][idx' # idx =>
            /\ idx' = idx + 1
            /\ modelCalls' = modelCalls + 1
            /\ filtered_posts' =
                 IF OwnAccept(lastOutcome')
                 THEN Append(filtered_posts,
                             Pair(all_posts[idx'], ReasonOf(lastOutcome'.text), idx'))
                 ELSE filtered_posts]_vars

\* C5 witness: the call for the first of two posts failed; the post was
\* rejected after that single call and the loop stands at the second post.
C5_Witness ==
    /\ pc = "filter" /\ Len(all_posts) = 2
    /\ idx = 1 /\ modelCalls = 1
    /\ lastOutcome.kind = "api_error"
    /\ filtered_posts = <<>>

----------------------------------------------------------------------------
\* C6 (as claimed): send_email returns a boolean and never raises, whatever
\* the mail configuration and whatever the SMTP session does, so a run never
\* ends with an exception from the delivery stage.
C6_SendNeverRaises ==
    /\ raisedIn # "send_email"
    /\ sendCalls >= 1 => sendResult \in {"True", "False"}

----------------------------------------------------------------------------
NoNetwork == fetchRequests = 0 /\ modelCalls = 0 /\ smtpOpened = 0

\* C7: when OPENROUTER_KEY is missing or empty, main returns right after
\* validate_env_variables returns False and nothing is fetched, no model call
\* is made and no mail connection is opened; when the key is present the
\* validation passes whatever optional settings are missing.
C7_MissingKeyHaltsBeforeNetwork ==
    /\ ~Truthy(env["OPENROUTER_KEY"])
          => /\ NoNetwork
             /\ pc \in {"main", "done"}
             /\ validated \in {"pending", "failed"}
             /\ pc = "done" <=> validated = "failed"
    /\ Truthy(env["OPENROUTER_KEY"]) => validated \in {"pending", "passed"}

\* C7 witness: a run with an empty key has ended at the failed validation.
C7_Witness ==
    /\ env["OPENROUTER_KEY"] = "" /\ pc = "done" /\ validated = "failed"
    /\ NoNetwork

----------------------------------------------------------------------------
Ended == pc \in {"done", "raised"}

\* C8 (as claimed): in every run that passes the configuration check the
\* renderer runs once, send_email is called at most once, and it is called
\* exactly when a post was accepted and a recipient is configured.
C8_RendererRunsOnce ==
    /\ sendCalls <= 1
    /\ (pc = "done" /\ validated = "passed")
          => /\ renderCalls = 1
             /\ sendCalls = 1 <=> (filtered_posts # <<>> /\ Truthy(env["RECIPIENT_EMAIL"]))

\* C8 (amended): in every run that passes the configuration check the
\* renderer runs at most once, and exactly once over all accepted results
\* when at least one post was accepted, never when none was; send_email is
\* called at most once, exactly when at least one post was accepted and a
\* recipient is configured.
C8_RendererRunsOnceIfAccepted ==
    /\ renderCalls <= 1 /\ sendCalls <= 1
    /\ renderCalls = 1 => (filtered_posts # <<>> /\ report.count = Len(filtered_posts))
    /\ sendCalls = 1
          => (renderCalls = 1 /\ filtered_posts # <<>> /\ Truthy(env["RECIPIENT_EMAIL"]))
    /\ (Ended /\ validated = "passed")
          => /\ renderCalls = 1 <=> filtered_posts # <<>>
             /\ sendCalls = 1 <=> (filtered_posts # <<>> /\ Truthy(env["RECIPIENT_EMAIL"]))

\* C8 witness: a run with an accepted post and a recipient has rendered once
\* and called send_email once.
C8_Witness ==
    /\ pc = "done" /\ validated = "passed"
    /\ filtered_posts # <<>> /\ Truthy(env["RECIPIENT_EMAIL"])
    /\ renderCalls = 1 /\ sendCalls = 1 /\ sendResult = "True"

----------------------------------------------------------------------------
\* the collected posts follow the forum order, and within a forum they follow
\* the listing: each post is the next of the listing, or the first of it
CollectedInOrder ==
    /\ \A i, j \in 1..Len(all_posts) :
          i < j => ForumIndex(all_posts[i].subreddit) <= ForumIndex(all_posts[j].subreddit)
    /\ \A i \in 1..Len(all_posts) :
          IF i > 1 /\ all_posts[i - 1].subreddit = all_posts[i].subreddit
          THEN all_posts[i].id \in {all_posts[i - 1].id + 1, 1}
          ELSE all_posts[i].id = 1

\* the accepted pairs are in the order of their posts in the input
AcceptedInOrder ==
    \A k, m \in 1..Len(filtered_posts) :
        k < m => filtered_posts[k].pos < filtered_posts[m].pos

\* the report has one block per pair, in the order of the pairs
BlocksInOrder ==
    report # NoReport =>
        /\ Len(report.blocks) = Len(filtered_posts)
        /\ \A k \in 1..Len(filtered_posts) :
              /\ report.blocks[k].href = get_full_url(all_posts[filtered_posts[k].pos])
              /\ report.blocks[k].reason = filtered_posts[k].reason

----------------------------------------------------------------------------
\* C10 (as claimed): the list fetch_new_posts returns holds posts of one
\* path only: after a failed authenticated path it holds what the anonymous
\* path mapped and nothing else, it never holds a submission twice, and it
\* never holds more than limit posts.
C10_OnePathOnly ==
    pc = "returned" =>
      /\ lastFetch.auth = "failed" => all_posts = Mapped(callArgs.subreddit, lastFetch.nAnon)
      /\ \A i, j \in 1..Len(all_posts) : all_posts[i] = all_posts[j] => i = j
      /\ Len(all_posts) <= callArgs.limit

====
